---- MODULE Spec2Model ----
(***************************************************************************)
(* A model of pipeline.py (keiba-scatter): the batch pipeline that joins   *)
(* each horse's past runs to track-condition measurements, classifies the  *)
(* runs against the target race and renders one scatter document per race, *)
(* with the index of the documents, the script of a document and the       *)
(* publisher.  Spec is the loop of main; SpecJoin, SpecRender, SpecIndex,  *)
(* SpecRaceList, SpecClient and SpecDeploy are link_cushion_data,          *)
(* generate_scatter_html, generate_index, get_race_list, the script and    *)
(* deploy_to_github taken alone over their inputs.                         *)
(*                                                                         *)
(* Encoding of the Python values:                                          *)
(*   - floats are integers in tenths (9.8 is 98, 11.2 is 112);             *)
(*   - None is Null, a key that a dict does not hold is Absent;            *)
(*   - the Japanese literals are transliterated: "shiba" is the turf mark, *)
(*     "da" the dirt mark, "shou" the obstacle mark, "daato" the long dirt *)
(*     word, "?" the unknown mark; venues are written in romaji;           *)
(*   - the dict key f"{date}_{venue}" is the pair <<date, venue>>;         *)
(*   - a dict in insertion order is a sequence of [name, races] records;   *)
(*   - a race name and the digits of a link are sequences of characters,   *)
(*     a file name is a record of its parts.                               *)
(***************************************************************************)
EXTENDS Integers, Sequences, FiniteSets, TLC

VARIABLES
    no_scrape,        \* args.no_scrape
    races,            \* the filtered race list of main
    jra_live,         \* the result of fetch_jra_live: venue -> measurements
    cushion_db,       \* the condition table, json.load of CUSHION_DB_PATH
    cache,            \* CACHE_DIR: the race data persisted, by race_id
    cache0,           \* the cache as the run found it
    pc,               \* position of the process
    i,                \* index of the race the loop of main is at
    race_data,        \* main's race_data
    horses,           \* scrape_race_data: the roster (name, horse_id)
    responses,        \* the History Adapter's responses of this scrape, in order
    all_horses,       \* scrape_race_data: all_horses
    results_summary,  \* main's results_summary
    artifacts,        \* the scatter documents written, in order
    renders,          \* the results of generate_scatter_html calls, in order
    rosterCalls,      \* per race: requests made to the Roster Adapter
    historyCalls,     \* per race: requests made to the History Adapter
    cacheWrites,      \* per race: writes of the cache file
    outcome,          \* per race of the list: how the loop got its race data
    inflight,         \* the acquisition requests sent and not yet answered
    gap,              \* tenths of a second slept since the last History request
    reqGap,           \* gap as the latest History request found it
    index_html,       \* the index document: its venue sections, in order
    href_id,          \* get_race_list: the digits and the text of the link at hand
    list_venue,       \* get_race_list: the venue decoded for that link
    ui,               \* the document's script: selectedHorses, highlightedPoints, ratings
    out_dir,          \* the names of the files of the output directory
    html_files,       \* deploy_to_github: the documents of the output directory
    existing,         \* deploy_to_github: name -> sha of the remote listing
    remote,           \* the remote content store: name -> sha
    ops               \* the requests deploy_to_github has issued, in order

vars == <<no_scrape, races, jra_live, cushion_db, cache, cache0, pc, i, race_data,
          horses, responses, all_horses, results_summary, artifacts, renders,
          rosterCalls, historyCalls, cacheWrites, outcome, inflight, gap, reqGap,
          index_html, href_id, list_venue, ui, out_dir, html_files, existing, remote, ops>>

acqVars == <<inflight, gap, reqGap>>

otherVars == <<index_html, href_id, list_venue, ui, out_dir, html_files, existing, remote, ops>>

(***************************************************************************)
(* Bounds of the model.                                                    *)
(***************************************************************************)
MaxRaces == 2
MaxEntrants == 2
MaxHorses == 2
MaxRuns == 2
MaxRenders == 2

(***************************************************************************)
(* Python values.                                                          *)
(***************************************************************************)
Null == -1
Absent == -2

Shiba == "shiba"
Da == "da"
Shou == "shou"
Daato == "daato"
Unknown == "?"
NoSurface == "absent"

\* dict.get(key) of a JSON object: None for a key the object does not hold
DictGet(v) == IF v = Absent THEN Null ELSE v

(***************************************************************************)
(* Step 4: link_cushion_data                                               *)
(***************************************************************************)
\* a condition table maps every key of its domain to an entry; NoKey marks
\* a key the table does not hold
NoKey == [kind |-> "nokey", cushion |-> Absent, turf_goal |-> Absent, dirt_goal |-> Absent]

KeyOf(r) == <<r.date, r.venue>>

KeyInDb(key, db) == key \in DOMAIN db /\ db[key].kind # "nokey"

\* entry['cushion'] raises: TypeError for an entry that is no mapping,
\* KeyError for a mapping without the key
LinkRaises(r, db) ==
    /\ KeyInDb(KeyOf(r), db)
    /\ \/ db[KeyOf(r)].kind # "dict"
       \/ db[KeyOf(r)].cushion = Absent

\* r.get('surface', default)
SurfaceOr(r, default) == IF r.surface = NoSurface THEN default ELSE r.surface

\* LinkRun with the long dirt word forgotten in the surface test
LinkRunShortDirtOnly(r, db) ==
    LET key == KeyOf(r)
        surface == SurfaceOr(r, Shiba)
    IN IF KeyInDb(key, db)
       THEN [r EXCEPT !.cushion = db[key].cushion,
                      !.moisture = IF surface = Da
                                   THEN DictGet(db[key].dirt_goal)
                                   ELSE DictGet(db[key].turf_goal)]
       ELSE [r EXCEPT !.cushion = Null, !.moisture = Null]

LinkRunStoringSurface(r, db) ==
    LET key == KeyOf(r)
        surface == SurfaceOr(r, Shiba)
    IN IF KeyInDb(key, db)
       THEN [r EXCEPT !.surface = surface,
                      !.cushion = db[key].cushion,
                      !.moisture = IF surface = Da \/ surface = Daato
                                   THEN DictGet(db[key].dirt_goal)
                                   ELSE DictGet(db[key].turf_goal)]
       ELSE [r EXCEPT !.surface = surface, !.cushion = Null, !.moisture = Null]

\* the body of the inner loop, lines 241-255, for a run it does not raise on
LinkRun(r, db) ==
    LET key == KeyOf(r)
        surface == SurfaceOr(r, Shiba)
    IN IF KeyInDb(key, db)
       THEN [r EXCEPT !.cushion = db[key].cushion,
                      !.moisture = IF surface = Da \/ surface = Daato
                                   THEN DictGet(db[key].dirt_goal)
                                   ELSE DictGet(db[key].turf_goal)]
       ELSE [r EXCEPT !.cushion = Null, !.moisture = Null]

\* the inner loop over one horse's runs: the runs before the first raising
\* one are joined, that one and the later ones are left as they were
RECURSIVE LinkRaces(_, _)
LinkRaces(rs, db) ==
    IF rs = <<>> THEN [races |-> <<>>, raised |-> FALSE]
    ELSE IF LinkRaises(Head(rs), db) THEN [races |-> rs, raised |-> TRUE]
    ELSE LET rest == LinkRaces(Tail(rs), db)
         IN [races |-> <<LinkRun(Head(rs), db)>> \o rest.races, raised |-> rest.raised]

\* the outer loop over race_data['horses'].items()
RECURSIVE LinkHorses(_, _)
LinkHorses(hs, db) ==
    IF hs = <<>> THEN [horses |-> <<>>, raised |-> FALSE]
    ELSE LET first == LinkRaces(Head(hs).races, db)
             linked == [Head(hs) EXCEPT !.races = first.races]
         IN IF first.raised THEN [horses |-> <<linked>> \o Tail(hs), raised |-> TRUE]
            ELSE LET rest == LinkHorses(Tail(hs), db)
                 IN [horses |-> <<linked>> \o rest.horses, raised |-> rest.raised]

\* link_cushion_data(race_data, cushion_db): the race data as the call leaves
\* it, and whether the call raised instead of returning
link_cushion_data(rd, db) ==
    LET res == LinkHorses(rd.horses, db)
    IN [race_data |-> [rd EXCEPT !.horses = res.horses], raised |-> res.raised]

(***************************************************************************)
(* Step 5: generate_scatter_html                                           *)
(***************************************************************************)
\* lines 275-280 with the distance compared first
CategoryDistanceFirst(r, surface, distance) ==
    IF r.distance = distance THEN "same_dist"
    ELSE IF r.surface # surface THEN "diff_surface"
    ELSE "diff_dist"

\* lines 275-280
Category(r, surface, distance) ==
    IF r.surface # surface THEN "diff_surface"
    ELSE IF r.distance = distance THEN "same_dist"
    ELSE "diff_dist"

\* line 273 testing the cushion alone
SkippedCushionOnly(r) == DictGet(r.cushion) = Null

\* line 273: the run is passed over
Skipped(r) == DictGet(r.cushion) = Null \/ DictGet(r.moisture) = Null

GoodNoNoneTest(r) == r.result <= 3

\* line 292
Good(r) == r.result # Null /\ r.result <= 3

\* lines 282-293
JsRace(r, surface, distance) ==
    [date |-> r.date, venue |-> r.venue, surface |-> r.surface, distance |-> r.distance,
     race_name |-> r.race_name, result |-> r.result, cushion |-> r.cushion,
     moisture |-> r.moisture, cat |-> Category(r, surface, distance), good |-> Good(r)]

\* lines 271-293: the inner loop
RECURSIVE JsRaces(_, _, _)
JsRaces(rs, surface, distance) ==
    IF rs = <<>> THEN <<>>
    ELSE IF Skipped(Head(rs)) THEN JsRaces(Tail(rs), surface, distance)
    ELSE <<JsRace(Head(rs), surface, distance)>> \o JsRaces(Tail(rs), surface, distance)

\* lines 269-294 appending only the horses that have a run to show
RECURSIVE JsHorsesWithData(_, _, _)
JsHorsesWithData(hs, surface, distance) ==
    IF hs = <<>> THEN <<>>
    ELSE LET js_races == JsRaces(Head(hs).races, surface, distance)
         IN (IF js_races = <<>> THEN <<>> ELSE <<[name |-> Head(hs).name, races |-> js_races]>>)
            \o JsHorsesWithData(Tail(hs), surface, distance)

\* lines 269-294: the outer loop
RECURSIVE JsHorses(_, _, _)
JsHorses(hs, surface, distance) ==
    IF hs = <<>> THEN <<>>
    ELSE <<[name |-> Head(hs).name, races |-> JsRaces(Head(hs).races, surface, distance)]>>
         \o JsHorses(Tail(hs), surface, distance)

RECURSIVE SumLen(_)
SumLen(js) == IF js = <<>> THEN 0 ELSE Len(Head(js).races) + SumLen(Tail(js))

\* generate_scatter_html: the HORSES data it embeds and the triple it returns
generate_scatter_html(rd) ==
    LET js_horses == JsHorses(rd.horses, rd.race_info.surface, rd.race_info.distance)
    IN [js_horses |-> js_horses,
        total_pts |-> SumLen(js_horses),
        horses_with_data |-> Cardinality({ n \in 1..Len(js_horses) : js_horses[n].races # <<>> }),
        total |-> Len(js_horses)]

(***************************************************************************)
(* Inputs of the join taken alone: race data of at most MaxHorses horses   *)
(* holding at most MaxRuns runs between them, and a condition table.       *)
(***************************************************************************)
D1 == "20260215"
Tokyo == "Tokyo"
Kyoto == "Kyoto"

HorseNames == <<"Alpha", "Bravo", "Charlie", "Delta", "Echo">>

Run(date, venue, surface, distance, result, cushion, moisture) ==
    [date |-> date, venue |-> venue, surface |-> surface, distance |-> distance,
     race_name |-> "race", result |-> result, cushion |-> cushion, moisture |-> moisture]

\* runs as acquired (no cushion, no moisture yet); the second one carries the
\* values of an earlier join
JoinRunPool ==
    { Run(D1, Tokyo, Shiba, 1600, 1, Absent, Absent),
      Run(D1, Tokyo, Da, 1600, 4, 90, 100),
      Run(D1, Tokyo, NoSurface, 1600, 2, Absent, Absent),
      Run(D1, Kyoto, Daato, 1800, Null, Absent, Absent),
      Run(D1, Kyoto, Shou, 3000, 3, Absent, Absent),
      Run(D1, Kyoto, Unknown, 0, 5, Absent, Absent) }

Entry(cushion, turf_goal, dirt_goal) ==
    [kind |-> "dict", cushion |-> cushion, turf_goal |-> turf_goal, dirt_goal |-> dirt_goal]

\* an entry that is no JSON object (a list, a number, a string, null)
NotMapping == [kind |-> "other", cushion |-> Absent, turf_goal |-> Absent, dirt_goal |-> Absent]

TokyoEntries ==
    { NoKey,
      Entry(98, 112, 45),
      Entry(98, Null, 45),
      Entry(98, 112, Absent),
      Entry(Absent, 112, 45),
      NotMapping }

KyotoEntries == { NoKey, Entry(90, 100, 30) }

KEYS == { <<D1, Tokyo>>, <<D1, Kyoto>> }

ConditionTables ==
    { [k \in KEYS |-> IF k = <<D1, Tokyo>> THEN t ELSE y] :
        t \in TokyoEntries, y \in KyotoEntries }

\* the sequences of exactly n runs of the pool
RECURSIVE RunSeqs(_, _)
RunSeqs(pool, n) ==
    IF n = 0 THEN { <<>> }
    ELSE { <<r>> \o s : r \in pool, s \in RunSeqs(pool, n - 1) }

\* the sequences of n run sequences holding at most k runs between them
RECURSIVE RunLists(_, _, _)
RunLists(pool, n, k) ==
    IF n = 0 THEN { <<>> }
    ELSE UNION { { <<s>> \o rest : s \in RunSeqs(pool, j), rest \in RunLists(pool, n - 1, k - j) } :
                 j \in 0..k }

\* a dict name -> runs in insertion order, the names distinct
NamedHorses(lists) == [n \in 1..Len(lists) |-> [name |-> HorseNames[n], races |-> lists[n]]]

HorsesOver(pool) ==
    UNION { { NamedHorses(l) : l \in RunLists(pool, n, MaxRuns) } : n \in 0..MaxHorses }

\* a race identifier YYYYVVKKDDRR: the venue code rid[4:6] and the number its
\* last two digits rid[10:12] denote; the other digits are the same in a batch
RaceId(venue_code, race_num) == [venue_code |-> venue_code, race_num |-> race_num]

RaceInfo(race_id, race_name, venue, surface, distance) ==
    [race_id |-> race_id, race_name |-> race_name, venue |-> venue,
     surface |-> surface, distance |-> distance]

NoRaceData == [race_info |-> RaceInfo(RaceId("", 0), <<>>, Unknown, Unknown, 0), horses |-> <<>>]

\* the empty condition table
NoTable == [k \in KEYS |-> NoKey]

JoinInputs ==
    { [race_info |-> RaceInfo(RaceId("05", 11), <<"S">>, Tokyo, Shiba, 1600), horses |-> hs] :
        hs \in HorsesOver(JoinRunPool) }

\* the script's state on load, lines 425-426 and 493
UiOnLoad == [selectedHorses |-> {}, highlightedPoints |-> {}, ratings |-> <<>>]

InitOther ==
    /\ index_html = <<>>
    /\ href_id = <<>>
    /\ list_venue = Null
    /\ ui = UiOnLoad
    /\ out_dir = {}
    /\ html_files = {}
    /\ existing = <<>>
    /\ remote = <<>>
    /\ ops = <<>>

InitAcq ==
    /\ inflight = {}
    /\ gap = Null
    /\ reqGap = Null

InitRest ==
    /\ InitOther
    /\ InitAcq
    /\ no_scrape = FALSE
    /\ races = <<>>
    /\ jra_live = <<>>
    /\ cache = <<>>
    /\ cache0 = <<>>
    /\ outcome = <<>>
    /\ i = 1
    /\ horses = <<>>
    /\ responses = <<>>
    /\ all_horses = <<>>
    /\ results_summary = <<>>
    /\ artifacts = <<>>
    /\ renders = <<>>
    /\ rosterCalls = <<>>
    /\ historyCalls = <<>>
    /\ cacheWrites = <<>>

InitJoin ==
    /\ race_data \in JoinInputs
    /\ cushion_db \in ConditionTables
    /\ pc = "link"
    /\ InitRest

\* main, line 684: race_data = link_cushion_data(race_data, cushion_db); an
\* exception of the call is caught nowhere and ends the process
LinkCushionData ==
    /\ UNCHANGED acqVars
    /\ UNCHANGED otherVars
    /\ pc = "link"
    /\ LET res == link_cushion_data(race_data, cushion_db)
       IN /\ race_data' = res.race_data
          /\ pc' = IF res.raised THEN "raised_in_link" ELSE "render"
    /\ UNCHANGED <<no_scrape, races, jra_live, cushion_db, cache, cache0, i, horses,
                   responses, all_horses, results_summary, artifacts, renders,
                   rosterCalls, historyCalls, cacheWrites, outcome>>

\* link_cushion_data called once more on what it returned, with the same table
LinkCushionDataAgain ==
    /\ pc = "render"
    /\ LET res == link_cushion_data(race_data, cushion_db)
       IN /\ race_data' = res.race_data
          /\ pc' = IF res.raised THEN "raised_in_link" ELSE "linked_twice"
    /\ UNCHANGED acqVars
    /\ UNCHANGED otherVars
    /\ UNCHANGED <<no_scrape, races, jra_live, cushion_db, cache, cache0, i, horses,
                   responses, all_horses, results_summary, artifacts, renders,
                   rosterCalls, historyCalls, cacheWrites, outcome>>

NextJoin ==
    \/ LinkCushionData
    \/ LinkCushionDataAgain

SpecJoin == InitJoin /\ [][NextJoin]_vars

(***************************************************************************)
(* Inputs of the renderer taken alone: joined race data and a target.      *)
(***************************************************************************)
\* joined runs: fully joined, joined with one value null, unmatched
RenderRunPool ==
    { Run(D1, Tokyo, Shiba, 1600, 1, 98, 112),
      Run(D1, Tokyo, Shiba, 2000, 4, 98, 112),
      Run(D1, Tokyo, Da, 1600, Null, 98, 45),
      Run(D1, Kyoto, Da, 2000, 3, 90, 30),
      Run(D1, Tokyo, Shiba, 1600, 2, 98, Null),
      Run(D1, Kyoto, Shiba, 1600, 1, Null, Null),
      Run(D1, Kyoto, Shou, 1600, 5, 90, 100) }

RenderInputs ==
    { [race_info |-> RaceInfo(RaceId("05", 11), <<"S">>, Tokyo, surface, distance), horses |-> hs] :
        surface \in {Shiba, Da}, distance \in {1600, 2000}, hs \in HorsesOver(RenderRunPool) }

InitRender ==
    /\ race_data \in RenderInputs
    /\ cushion_db = NoTable
    /\ pc = "render"
    /\ InitRest

\* one call of generate_scatter_html on the race data; the call leaves the
\* race data as it is
GenerateScatterHtml ==
    /\ UNCHANGED acqVars
    /\ UNCHANGED otherVars
    /\ pc = "render"
    /\ Len(renders) < MaxRenders
    /\ renders' = Append(renders, generate_scatter_html(race_data))
    /\ UNCHANGED <<no_scrape, races, jra_live, cushion_db, cache, cache0, pc, i,
                   race_data, horses, responses, all_horses, results_summary,
                   artifacts, rosterCalls, historyCalls, cacheWrites, outcome>>

NextRender == GenerateScatterHtml

SpecRender == InitRender /\ [][NextRender]_vars

(***************************************************************************)
(* The renderer, settled under SpecRender.                                 *)
(***************************************************************************)
\* the fields a run holds before it is classified
RunFields(e) ==
    [date |-> e.date, venue |-> e.venue, surface |-> e.surface, distance |-> e.distance,
     race_name |-> e.race_name, result |-> e.result, cushion |-> e.cushion,
     moisture |-> e.moisture]

RECURSIVE Fields(_)
Fields(es) == IF es = <<>> THEN <<>> ELSE <<RunFields(Head(es))>> \o Fields(Tail(es))

BothJoined(r) == r.cushion \notin {Null, Absent} /\ r.moisture \notin {Null, Absent}

\* a is b with some elements left out
RECURSIVE IsSubSeq(_, _)
IsSubSeq(a, b) ==
    IF a = <<>> THEN TRUE
    ELSE IF b = <<>> THEN FALSE
    ELSE IF Head(a) = Head(b) THEN IsSubSeq(Tail(a), Tail(b))
    ELSE IsSubSeq(a, Tail(b))

Target == race_data.race_info

\* C3: every run with non-null cushion and moisture is embedded with exactly
\* one category: diff_surface when its surface differs from the target's
\* (whatever the distances), same_dist when the surfaces are equal and the
\* distances are equal, diff_dist otherwise
ClassificationTotal ==
    \A c \in 1..Len(renders) :
        LET js == renders[c].js_horses
        IN \A n \in 1..Len(js) :
            /\ Len(js[n].races) =
                 Cardinality({ k \in 1..Len(race_data.horses[n].races) :
                                 BothJoined(race_data.horses[n].races[k]) })
            /\ \A k \in 1..Len(js[n].races) :
                 LET e == js[n].races[k]
                 IN /\ e.cat \in {"same_dist", "diff_dist", "diff_surface"}
                    /\ e.surface # Target.surface => e.cat = "diff_surface"
                    /\ e.surface = Target.surface /\ e.distance = Target.distance
                          => e.cat = "same_dist"
                    /\ e.surface = Target.surface /\ e.distance # Target.distance
                          => e.cat = "diff_dist"

\* a rendering that holds the three examples of the specification and a run
\* of another surface at the target's distance
ClassificationWitness ==
    /\ Len(renders) >= 1
    /\ Target.surface = Shiba /\ Target.distance = 1600
    /\ \E n, m \in 1..Len(renders[1].js_horses) :
          \E k \in 1..Len(renders[1].js_horses[n].races) :
          \E l \in 1..Len(renders[1].js_horses[m].races) :
             LET e == renders[1].js_horses[n].races[k]
                 f == renders[1].js_horses[m].races[l]
             IN /\ e.surface = Da /\ e.distance = 1600 /\ e.cat = "diff_surface"
                /\ f.surface = Shiba /\ f.distance = 2000 /\ f.cat = "diff_dist"

\* C4: the embedded runs of each horse are exactly its input runs with both
\* values non-null, none of them has a null value, and the returned point
\* count is the number of embedded runs
NullRunsExcluded ==
    \A c \in 1..Len(renders) :
        LET js == renders[c].js_horses
        IN /\ \A n \in 1..Len(js) :
                /\ Fields(js[n].races) = SelectSeq(race_data.horses[n].races, BothJoined)
                /\ \A k \in 1..Len(js[n].races) :
                      js[n].races[k].cushion # Null /\ js[n].races[k].moisture # Null
           /\ renders[c].total_pts =
                Cardinality(UNION { { <<n, k>> : k \in 1..Len(js[n].races) } : n \in 1..Len(js) })

\* a rendering of a horse with a half-joined run and a joined run
NullRunsWitness ==
    /\ Len(renders) >= 1
    /\ \E n \in 1..Len(race_data.horses) :
          /\ \E k \in 1..Len(race_data.horses[n].races) :
                LET r == race_data.horses[n].races[k]
                IN r.cushion # Null /\ r.moisture = Null
          /\ Len(renders[1].js_horses[n].races) = 1
    /\ renders[1].total_pts = 1

\* C12: an embedded run is flagged good exactly when the finish position of
\* the input run it was made from is not null and is at most 3
GoodResult ==
    \A c \in 1..Len(renders) :
        \A n \in 1..Len(renders[c].js_horses) :
            LET shown == SelectSeq(race_data.horses[n].races, BothJoined)
                js_races == renders[c].js_horses[n].races
            IN /\ Len(js_races) = Len(shown)
               /\ \A k \in 1..Len(js_races) :
                     /\ js_races[k].good \in BOOLEAN
                     /\ js_races[k].good <=> (shown[k].result # Null /\ shown[k].result <= 3)

\* a rendering that shows a run with no finish position, not good, and one
\* that finished third, good
GoodResultWitness ==
    /\ Len(renders) >= 1
    /\ \E n, m \in 1..Len(renders[1].js_horses) :
          /\ \E k \in 1..Len(renders[1].js_horses[n].races) :
                LET e == renders[1].js_horses[n].races[k]
                IN e.result = Null /\ ~e.good
          /\ \E k \in 1..Len(renders[1].js_horses[m].races) :
                LET e == renders[1].js_horses[m].races[k]
                IN e.result = 3 /\ e.good

\* C5: two calls on the same race data embed the same HORSES data; the
\* embedded horses are the input horses in their order, one with no eligible
\* run included, and each horse's embedded runs are a subsequence of its
\* input runs
RenderDeterministicOrdered ==
    /\ \A c, d \in 1..Len(renders) : renders[c].js_horses = renders[d].js_horses
    /\ \A c \in 1..Len(renders) :
          LET js == renders[c].js_horses
          IN /\ Len(js) = Len(race_data.horses)
             /\ renders[c].total = Len(race_data.horses)
             /\ \A n \in 1..Len(js) :
                   /\ js[n].name = race_data.horses[n].name
                   /\ IsSubSeq(Fields(js[n].races), race_data.horses[n].races)

\* two renderings of two horses, the first with no eligible run
RenderOrderWitness ==
    /\ Len(renders) = 2
    /\ Len(race_data.horses) = 2
    /\ Len(race_data.horses[1].races) = 1
    /\ renders[2].js_horses[1].races = <<>>
    /\ Len(renders[2].js_horses[2].races) = 1

(***************************************************************************)
(* The join, settled under SpecJoin.                                       *)
(***************************************************************************)
\* every run of the race data, as <<horse index, run index>>
RunsOf(rd) == UNION { { <<n, k>> : k \in 1..Len(rd.horses[n].races) } : n \in 1..Len(rd.horses) }

RunAt(rd, p) == rd.horses[p[1]].races[p[2]]

\* C1: after link_cushion_data returns, every run's cushion is null if and
\* only if its moisture is null
JoinAtomic ==
    pc = "render" =>
        \A p \in RunsOf(race_data) :
            (RunAt(race_data, p).cushion = Null) <=> (RunAt(race_data, p).moisture = Null)

\* race data b is race data a but for the cushion and moisture of its runs
SameButJoined(a, b) ==
    /\ b.race_info = a.race_info
    /\ Len(b.horses) = Len(a.horses)
    /\ \A n \in 1..Len(a.horses) :
          /\ b.horses[n].name = a.horses[n].name
          /\ DOMAIN b.horses[n] = DOMAIN a.horses[n]
          /\ Len(b.horses[n].races) = Len(a.horses[n].races)
          /\ \A k \in 1..Len(a.horses[n].races) :
                LET r == a.horses[n].races[k]
                    q == b.horses[n].races[k]
                IN /\ DOMAIN q = DOMAIN r
                   /\ q.date = r.date /\ q.venue = r.venue /\ q.surface = r.surface
                   /\ q.distance = r.distance /\ q.race_name = r.race_name
                   /\ q.result = r.result

\* C16: a call of link_cushion_data leaves the condition table as it was
\* and the race data as it was but for the cushion and moisture of the runs
\* (race info, horses, their order, the runs, their order and their other
\* fields kept), and a second call with the same table leaves the race data
\* exactly as the first left it
JoinFrame ==
    [][ /\ cushion_db' = cushion_db
        /\ SameButJoined(race_data, race_data')
        /\ pc = "render" => race_data' = race_data ]_vars

\* joined twice: a run with no surface whose key is in the table, and a
\* run whose key is not
JoinFrameWitness ==
    /\ pc = "linked_twice"
    /\ \E p, q \in RunsOf(race_data) :
          /\ RunAt(race_data, p).surface = NoSurface
          /\ RunAt(race_data, p).cushion = 98
          /\ RunAt(race_data, q).cushion = Null
          /\ RunAt(race_data, q).moisture = Null

\* C2: after link_cushion_data returns, every run whose key the table holds
\* has the entry's cushion, and as moisture the entry's dirt_goal when its
\* surface is dirt, the entry's turf_goal for any other surface (turf,
\* obstacle, unknown or missing); a goal the entry lacks reads as null
JoinResult ==
    pc = "render" =>
        \A p \in RunsOf(race_data) :
            LET r == RunAt(race_data, p)
                e == cushion_db[<<r.date, r.venue>>]
            IN e.kind = "dict" =>
                 /\ r.cushion = e.cushion
                 /\ r.surface \in {Da, Daato} =>
                        r.moisture = (IF e.dirt_goal = Absent THEN Null ELSE e.dirt_goal)
                 /\ r.surface \in {Shiba, Shou, Unknown, NoSurface} =>
                        r.moisture = (IF e.turf_goal = Absent THEN Null ELSE e.turf_goal)

\* the example of the specification: under 20260215_Tokyo -> (9.8, 11.2, 4.5)
\* the turf run is joined to (9.8, 11.2) and the dirt run to moisture 4.5
JoinResultWitness ==
    /\ pc = "render"
    /\ cushion_db[<<D1, Tokyo>>] = Entry(98, 112, 45)
    /\ \E p, q \in RunsOf(race_data) :
          /\ RunAt(race_data, p) = Run(D1, Tokyo, Shiba, 1600, 1, 98, 112)
          /\ RunAt(race_data, q) = Run(D1, Tokyo, Da, 1600, 4, 98, 45)

\* an entry that is no mapping, or a mapping without the cushion field
Malformed(e) == e.kind = "other" \/ (e.kind = "dict" /\ e.cushion = Absent)

\* C10: joining against a table that holds a malformed entry never raises,
\* and a run keyed to the malformed entry is left unmatched (both null)
MalformedEntrySkipped ==
    /\ pc # "raised_in_link"
    /\ pc = "render" =>
          \A p \in RunsOf(race_data) :
              LET r == RunAt(race_data, p)
              IN Malformed(cushion_db[<<r.date, r.venue>>]) =>
                     r.cushion = Null /\ r.moisture = Null

(***************************************************************************)
(* Step 2: get_race_list, and the venue codes                              *)
(***************************************************************************)
VENUE_CODES ==
    ("01" :> "Sapporo") @@ ("02" :> "Hakodate") @@ ("03" :> "Fukushima") @@
    ("04" :> "Niigata") @@ ("05" :> "Tokyo") @@ ("06" :> "Nakayama") @@
    ("07" :> "Chukyo") @@ ("08" :> "Kyoto") @@ ("09" :> "Hanshin") @@
    ("10" :> "Kokura")

VenueOfOrCode(venue_code) ==
    IF venue_code \in DOMAIN VENUE_CODES THEN VENUE_CODES[venue_code] ELSE venue_code

\* VENUE_CODES.get(venue_code, '?')
VenueOf(venue_code) ==
    IF venue_code \in DOMAIN VENUE_CODES THEN VENUE_CODES[venue_code] ELSE Unknown

\* lines 93-117: the race record built from a link of the listing
ListedRace(rid, race_name, surface, distance) ==
    [race_id |-> rid, venue |-> VenueOf(rid.venue_code), race_num |-> rid.race_num,
     race_name |-> race_name, surface |-> surface, distance |-> distance]

\* the listing of the day after the filters of main (no obstacle race); a
\* race name is the sequence of its characters; get_race_list keeps one
\* record per race identifier (the set seen of lines 88-94)
AllRaces ==
    << ListedRace(RaceId("05", 11), <<"G", "/", "1">>, Shiba, 1600),
       ListedRace(RaceId("99", 5), <<"S">>, Shiba, 2000),
       ListedRace(RaceId("08", 1), <<"3", " ", "s">>, Da, 1800) >>

Min(a, b) == IF a <= b THEN a ELSE b

RaceLists == { SubSeq(AllRaces, 1, n) : n \in 1..Min(MaxRaces, Len(AllRaces)) }

Ids(rs) == { rs[j].race_id : j \in 1..Len(rs) }

(***************************************************************************)
(* Step 1: the result of fetch_jra_live                                    *)
(***************************************************************************)
Live(cushion, turf_moisture, dirt_moisture) ==
    [cushion |-> cushion, turf_moisture |-> turf_moisture, dirt_moisture |-> dirt_moisture]

\* no venue measured; Tokyo measured in full; Tokyo on the moisture page only
\* and without a turf block (lines 65 and 73)
LiveFeeds ==
    { <<>>,
      ("Tokyo" :> Live(98, 112, 45)),
      ("Tokyo" :> Live(Absent, Null, 45)) }

(***************************************************************************)
(* Step 3: scrape_race_data and get_horse_results                          *)
(***************************************************************************)
\* the rows of class HorseList of a roster table; a row may hold no link to
\* a horse page
RosterRows ==
    << [link |-> TRUE, name |-> "Alpha", horse_id |-> "h1"],
       [link |-> FALSE, name |-> "", horse_id |-> ""],
       [link |-> TRUE, name |-> "Bravo", horse_id |-> "h2"],
       [link |-> TRUE, name |-> "Charlie", horse_id |-> "h3"],
       [link |-> TRUE, name |-> "Delta", horse_id |-> "h4"] >>

\* lines 153-161: the horses of the rows that hold a link
RECURSIVE Entrants(_)
Entrants(rows) ==
    IF rows = <<>> THEN <<>>
    ELSE (IF Head(rows).link
          THEN <<[name |-> Head(rows).name, horse_id |-> Head(rows).horse_id]>>
          ELSE <<>>) \o Entrants(Tail(rows))

\* the roster tables the Roster Adapter may answer with
RosterTables ==
    { SubSeq(RosterRows, 1, n) : n \in { m \in 0..Len(RosterRows) :
          Len(Entrants(SubSeq(RosterRows, 1, m))) <= MaxEntrants } }

\* a data row of a result table: the number of its cells and the texts read
FullRow(date, venue_text, result_text, mark, metres) ==
    [cells |-> 15, date |-> date, venue_text |-> venue_text, race_name |-> "race",
     result_text |-> result_text, mark |-> mark, metres |-> metres]

ShortRow == [cells |-> 3, date |-> "", venue_text |-> "", race_name |-> "",
             result_text |-> "", mark |-> "", metres |-> 0]

\* the data rows of the result page of a horse
PageRows(horse_id) ==
    CASE horse_id = "h1" -> << FullRow(D1, "To", "1", Shiba, 1600), ShortRow >>
      [] horse_id = "h2" -> << FullRow(D1, "Kyoto", "chu", Da, 1800) >>
      [] horse_id = "h3" -> << ShortRow, FullRow(D1, "Tokyo", "4", "", 0) >>
      [] OTHER -> << FullRow(D1, "Tokyo", "3", Shiba, 2000) >>

\* what a request to the History Adapter may end in: an exception of
\* session.get, a page without result table, a page with one
HistoryResponses(horse_id) ==
    { [kind |-> "raise", rows |-> <<>>],
      [kind |-> "no_table", rows |-> <<>>],
      [kind |-> "table", rows |-> PageRows(horse_id)] }

max_races == 10

venue_short_map ==
    ("To" :> "Tokyo") @@ ("Kyo" :> "Kyoto") @@ ("Naka" :> "Nakayama") @@
    ("Han" :> "Hanshin") @@ ("Ko" :> "Kokura") @@ ("Nii" :> "Niigata") @@
    ("Fuku" :> "Fukushima") @@ ("Hako" :> "Hakodate") @@ ("Sap" :> "Sapporo") @@
    ("Chukyo" :> "Chukyo")

\* str.isdigit and int on the texts of the pages
DigitTexts == ("1" :> 1) @@ ("2" :> 2) @@ ("3" :> 3) @@ ("4" :> 4) @@ ("5" :> 5)

\* lines 207-229: the run read from a row of 15 cells or more
ParseRow(row) ==
    [date |-> row.date,
     venue |-> IF row.venue_text \in DOMAIN venue_short_map
               THEN venue_short_map[row.venue_text] ELSE row.venue_text,
     surface |-> IF row.mark \in {Shiba, Da, Shou} THEN row.mark ELSE Unknown,
     distance |-> IF row.mark \in {Shiba, Da, Shou} THEN row.metres ELSE 0,
     race_name |-> row.race_name,
     result |-> IF row.result_text \in DOMAIN DigitTexts
                THEN DigitTexts[row.result_text] ELSE Null,
     cushion |-> Absent,
     moisture |-> Absent]

\* lines 202-231: the loop over the rows
RECURSIVE ParseRows(_)
ParseRows(rows) ==
    IF rows = <<>> THEN <<>>
    ELSE (IF Head(rows).cells < 15 THEN <<>> ELSE <<ParseRow(Head(rows))>>)
         \o ParseRows(Tail(rows))

\* get_horse_results for a request that returned
get_horse_results(resp) ==
    IF resp.kind # "table" THEN <<>>
    ELSE ParseRows(SubSeq(resp.rows, 1, Min(max_races, Len(resp.rows))))

\* line 167, all_horses[name] = results: a dict keeps a key where it first
\* was put
DictSet(d, k, v) ==
    IF \E n \in 1..Len(d) : d[n].name = k
    THEN [n \in 1..Len(d) |-> IF d[n].name = k THEN [d[n] EXCEPT !.races = v] ELSE d[n]]
    ELSE Append(d, [name |-> k, races |-> v])

(***************************************************************************)
(* main                                                                    *)
(***************************************************************************)
\* the cache file of a race as an earlier run wrote it
CachedData(race) ==
    [race_info |-> RaceInfo(race.race_id, race.race_name, race.venue, race.surface,
                            race.distance),
     horses |-> <<[name |-> "Echo",
                   races |-> <<Run(D1, "Tokyo", Shiba, 1600, 1, Absent, Absent)>>]>>]

Caches(rs) ==
    { [rid \in S |-> CachedData(CHOOSE r \in { rs[j] : j \in 1..Len(rs) } : r.race_id = rid)] :
        S \in SUBSET Ids(rs) }

PipelineTables ==
    { [k \in KEYS |-> IF k = <<D1, Tokyo>> THEN t ELSE Entry(90, 100, 30)] :
        t \in { Entry(98, 112, 45), Entry(Absent, 112, 45) } }

Init ==
    /\ InitOther
    /\ InitAcq
    /\ no_scrape \in BOOLEAN
    /\ races \in RaceLists
    /\ jra_live \in LiveFeeds
    /\ cushion_db \in PipelineTables
    /\ cache \in Caches(races)
    /\ cache0 = cache
    /\ pc = "loop"
    /\ i = 1
    /\ race_data = NoRaceData
    /\ horses = <<>>
    /\ responses = <<>>
    /\ all_horses = <<>>
    /\ results_summary = <<>>
    /\ artifacts = <<>>
    /\ renders = <<>>
    /\ rosterCalls = [rid \in Ids(races) |-> 0]
    /\ historyCalls = [rid \in Ids(races) |-> 0]
    /\ cacheWrites = [rid \in Ids(races) |-> 0]
    /\ outcome = [j \in 1..Len(races) |-> "pending"]

rid == races[i].race_id

\* lines 665-673 loading the cache file only under --no-scrape
UseCacheOnlyNoScrape(exists, cache_only) == exists /\ cache_only

\* lines 665-673: whether the cache file is loaded
UseCache(exists, cache_only) == (exists /\ cache_only) \/ exists

\* lines 655-673: the head of the loop body
CheckCache ==
    /\ UNCHANGED acqVars
    /\ UNCHANGED otherVars
    /\ pc = "loop"
    /\ i <= Len(races)
    /\ IF UseCache(rid \in DOMAIN cache, no_scrape)
       THEN /\ race_data' = cache[rid]
            /\ pc' = "link"
            /\ outcome' = [outcome EXCEPT ![i] = "cached"]
       ELSE /\ pc' = "roster"
            /\ UNCHANGED <<race_data, outcome>>
    /\ UNCHANGED <<no_scrape, races, jra_live, cushion_db, cache, cache0, i, horses,
                   responses, all_horses, results_summary, artifacts, renders,
                   rosterCalls, historyCalls, cacheWrites>>

\* the two kinds of request of scrape_race_data, lines 132 and 186
RosterGet(id) == <<"roster", id>>

HistoryGet(horse_id) == <<"history", horse_id>>

\* line 132: session.get is called
RosterSend ==
    /\ pc = "roster"
    /\ inflight' = inflight \cup {RosterGet(rid)}
    /\ rosterCalls' = [rosterCalls EXCEPT ![rid] = @ + 1]
    /\ pc' = "roster_wait"
    /\ UNCHANGED <<gap, reqGap>>
    /\ UNCHANGED otherVars
    /\ UNCHANGED <<no_scrape, races, jra_live, cushion_db, cache, cache0, i, race_data,
                   horses, responses, all_horses, results_summary, artifacts, renders,
                   historyCalls, cacheWrites, outcome>>

\* line 132: session.get raises; nothing catches it
RosterRaises ==
    /\ pc = "roster_wait"
    /\ inflight' = inflight \ {RosterGet(rid)}
    /\ pc' = "raised_in_scrape"
    /\ UNCHANGED <<gap, reqGap>>
    /\ UNCHANGED otherVars
    /\ UNCHANGED <<no_scrape, races, jra_live, cushion_db, cache, cache0, i, race_data,
                   horses, responses, all_horses, results_summary, artifacts, renders,
                   rosterCalls, historyCalls, cacheWrites, outcome>>

\* lines 676-678 going back for the same race
OnNoDataRetry(pos) == [pc |-> "roster", i |-> pos]

\* lines 676-678: continue
OnNoData(pos) == [pc |-> "loop", i |-> pos + 1]

\* lines 148-151 and 676-678: the page holds no roster table
RosterNoTable ==
    /\ pc = "roster_wait"
    /\ inflight' = inflight \ {RosterGet(rid)}
    /\ UNCHANGED <<gap, reqGap>>
    /\ UNCHANGED otherVars
    /\ race_data' = NoRaceData
    /\ outcome' = [outcome EXCEPT ![i] = "no_data"]
    /\ pc' = OnNoData(i).pc
    /\ i' = OnNoData(i).i
    /\ UNCHANGED <<no_scrape, races, jra_live, cushion_db, cache, cache0, horses,
                   responses, all_horses, results_summary, artifacts, renders,
                   rosterCalls, historyCalls, cacheWrites>>

\* lines 148-164: the page holds a roster table
RosterTable ==
    /\ pc = "roster_wait"
    /\ inflight' = inflight \ {RosterGet(rid)}
    /\ UNCHANGED <<gap, reqGap>>
    /\ UNCHANGED otherVars
    /\ \E rows \in RosterTables :
          horses' = Entrants(rows)
    /\ responses' = <<>>
    /\ all_horses' = <<>>
    /\ pc' = "history"
    /\ UNCHANGED <<no_scrape, races, jra_live, cushion_db, cache, cache0, i, race_data,
                   results_summary, artifacts, renders, rosterCalls, historyCalls,
                   cacheWrites, outcome>>

\* line 169, in tenths of a second
HistoryDelay == 5

NoSleep(t) == t

\* time.sleep(0.5) from t tenths of a second after the last History request
time_sleep(t) == t + HistoryDelay

\* lines 165-166 and 186: the next entrant's turn, session.get is called
HistorySend ==
    /\ pc = "history"
    /\ Len(responses) < Len(horses)
    /\ inflight' = inflight \cup {HistoryGet(horses[Len(responses) + 1].horse_id)}
    /\ reqGap' = gap
    /\ historyCalls' = [historyCalls EXCEPT ![rid] = @ + 1]
    /\ pc' = "history_wait"
    /\ UNCHANGED gap
    /\ UNCHANGED otherVars
    /\ UNCHANGED <<no_scrape, races, jra_live, cushion_db, cache, cache0, i, race_data,
                   horses, responses, all_horses, results_summary, artifacts, renders,
                   rosterCalls, cacheWrites, outcome>>

\* lines 165-169, the rest of the turn: the request returns, the results are
\* stored, the process sleeps
HistoryRequest ==
    /\ pc = "history_wait"
    /\ LET h == horses[Len(responses) + 1]
       IN /\ inflight' = inflight \ {HistoryGet(h.horse_id)}
          /\ \E resp \in HistoryResponses(h.horse_id) :
               /\ resp.kind # "raise"
               /\ responses' = Append(responses, resp)
               /\ all_horses' = DictSet(all_horses, h.name, get_horse_results(resp))
    /\ gap' = time_sleep(0)
    /\ pc' = "history"
    /\ UNCHANGED reqGap
    /\ UNCHANGED otherVars
    /\ UNCHANGED <<no_scrape, races, jra_live, cushion_db, cache, cache0, i,
                   race_data, horses, results_summary, artifacts, renders,
                   rosterCalls, historyCalls, cacheWrites, outcome>>

\* line 186: session.get raises; nothing catches it
HistoryRaises ==
    /\ pc = "history_wait"
    /\ LET h == horses[Len(responses) + 1]
       IN /\ inflight' = inflight \ {HistoryGet(h.horse_id)}
          /\ \E resp \in HistoryResponses(h.horse_id) :
               /\ resp.kind = "raise"
               /\ responses' = Append(responses, resp)
    /\ pc' = "raised_in_scrape"
    /\ UNCHANGED <<gap, reqGap>>
    /\ UNCHANGED otherVars
    /\ UNCHANGED <<no_scrape, races, jra_live, cushion_db, cache, cache0, i, race_data,
                   horses, all_horses, results_summary, artifacts, renders,
                   rosterCalls, historyCalls, cacheWrites, outcome>>

\* lines 136-142: what the roster page says of the race: the name, surface
\* and distance the listing gave, or nothing ('' and the defaults '?' and 0)
PageHeads(race) ==
    { [race_name |-> race.race_name, surface |-> race.surface, distance |-> race.distance],
      [race_name |-> <<>>, surface |-> Unknown, distance |-> 0] }

\* json.dump into the cache file of the race
CacheWrite(c, id, data) == [x \in DOMAIN c \cup {id} |-> IF x = id THEN data ELSE c[x]]

\* lines 171-180 and 679-681: the race data is returned and persisted
ScrapeReturn ==
    /\ UNCHANGED acqVars
    /\ UNCHANGED otherVars
    /\ pc = "history"
    /\ Len(responses) = Len(horses)
    /\ \E head \in PageHeads(races[i]) :
          LET data == [race_info |-> RaceInfo(rid, head.race_name, VenueOf(rid.venue_code),
                                              head.surface, head.distance),
                       horses |-> all_horses]
          IN /\ race_data' = data
             /\ cache' = CacheWrite(cache, rid, data)
    /\ cacheWrites' = [cacheWrites EXCEPT ![rid] = @ + 1]
    /\ outcome' = [outcome EXCEPT ![i] = "scraped"]
    /\ pc' = "link"
    /\ UNCHANGED <<no_scrape, races, jra_live, cushion_db, cache0, i, horses, responses,
                   all_horses, results_summary, artifacts, renders, rosterCalls,
                   historyCalls>>

\* dict.get(key, default) on a value read from a dict
GetOr(v, default) == IF v = Absent THEN default ELSE v

NoLive == Live(Absent, Absent, Absent)

\* jra_live.get(venue, {})
LiveOf(venue) == IF venue \in DOMAIN jra_live THEN jra_live[venue] ELSE NoLive

\* str.replace('/', '_').replace(' ', '')
RECURSIVE SafeName(_)
SafeName(name) ==
    IF name = <<>> THEN <<>>
    ELSE (IF Head(name) = "/" THEN <<"_">> ELSE IF Head(name) = " " THEN <<>> ELSE <<Head(name)>>)
         \o SafeName(Tail(name))

\* f'scatter_{venue}{race_num:02d}R_{safe_name}.html'
FileName(venue, race_num, race_name) ==
    [venue |-> venue, race_num |-> race_num, safe_name |-> SafeName(race_name)]

\* lines 686-703: the target point, the document, the summary
RenderArtifact ==
    /\ UNCHANGED acqVars
    /\ UNCHANGED otherVars
    /\ pc = "render"
    /\ LET race == races[i]
           target_cushion == GetOr(LiveOf(race.venue).cushion, 95)
           target_moisture == IF race.surface = Da
                              THEN GetOr(LiveOf(race.venue).dirt_moisture, 50)
                              ELSE GetOr(LiveOf(race.venue).turf_moisture, 120)
           out == generate_scatter_html(race_data)
       IN /\ artifacts' = Append(artifacts,
                [file |-> FileName(race.venue, race.race_num, race.race_name),
                 race_id |-> race.race_id,
                 HORSES |-> out.js_horses,
                 TX |-> target_cushion,
                 TY |-> target_moisture,
                 TDIST |-> race_data.race_info.distance])
          /\ results_summary' = Append(results_summary,
                <<race.venue, race.race_num, race.race_name, out.total, out.total_pts>>)
    /\ i' = i + 1
    /\ pc' = "loop"
    /\ UNCHANGED <<no_scrape, races, jra_live, cushion_db, cache, cache0, race_data,
                   horses, responses, all_horses, renders, rosterCalls, historyCalls,
                   cacheWrites, outcome>>

\* the loop of main is through
(***************************************************************************)
(* generate_index                                                          *)
(***************************************************************************)
\* the code points of the characters the race names are made of
Ord ==
    (" " :> 32) @@ ("/" :> 47) @@ ("1" :> 49) @@ ("3" :> 51) @@ ("G" :> 71) @@
    ("S" :> 83) @@ ("s" :> 115)

\* str < str
RECURSIVE StrLess(_, _)
StrLess(a, b) ==
    IF b = <<>> THEN FALSE
    ELSE IF a = <<>> THEN TRUE
    ELSE IF Head(a) # Head(b) THEN Ord[Head(a)] < Ord[Head(b)]
    ELSE StrLess(Tail(a), Tail(b))

\* tuple < tuple for the (rnum, rname, total, pts) of line 729
TupleLess(a, b) ==
    \/ a[1] < b[1]
    \/ a[1] = b[1] /\ StrLess(a[2], b[2])
    \/ a[1] = b[1] /\ a[2] = b[2] /\ a[3] < b[3]
    \/ a[1] = b[1] /\ a[2] = b[2] /\ a[3] = b[3] /\ a[4] < b[4]

RECURSIVE Insert(_, _)
Insert(t, s) ==
    IF s = <<>> THEN <<t>>
    ELSE IF TupleLess(t, Head(s)) THEN <<t>> \o s
    ELSE <<Head(s)>> \o Insert(t, Tail(s))

InInputOrder(s) == s

\* sorted(venues[venue])
RECURSIVE sorted(_)
sorted(s) == IF s = <<>> THEN <<>> ELSE Insert(s[Len(s)], sorted(SubSeq(s, 1, Len(s) - 1)))

\* lines 725-729: venues[venue], the summaries of one venue in input order
RECURSIVE Grouped(_, _)
Grouped(summary, venue) ==
    IF summary = <<>> THEN <<>>
    ELSE LET t == Head(summary)
         IN (IF t[1] = venue THEN << <<t[2], t[3], t[4], t[5]>> >> ELSE <<>>)
            \o Grouped(Tail(summary), venue)

\* line 763
VenueOrder ==
    << "Tokyo", "Kyoto", "Kokura", "Nakayama", "Hanshin", "Chukyo", "Niigata",
       "Fukushima", "Hakodate", "Sapporo" >>

\* lines 731-736 and 766: data.get(..., '?') of a measured venue, '' otherwise
VenueInfo(live, venue) ==
    IF venue \in DOMAIN live
    THEN [c |-> GetOr(live[venue].cushion, Unknown),
          tm |-> GetOr(live[venue].turf_moisture, Unknown),
          dm |-> GetOr(live[venue].dirt_moisture, Unknown)]
    ELSE <<>>

\* lines 768-771: the links of one section
IndexLinks(venue, entries) ==
    [ k \in 1..Len(entries) |->
        [href |-> FileName(venue, entries[k][1], entries[k][2]),
         rnum |-> entries[k][1], rname |-> entries[k][2],
         total |-> entries[k][3], pts |-> entries[k][4]] ]

\* lines 763-772, from the k-th venue of the fixed list on
RECURSIVE Sections(_, _, _)
Sections(summary, live, k) ==
    IF k > Len(VenueOrder) THEN <<>>
    ELSE LET venue == VenueOrder[k]
             entries == Grouped(summary, venue)
         IN (IF entries = <<>> THEN <<>>
             ELSE << [venue |-> venue, info |-> VenueInfo(live, venue),
                      links |-> IndexLinks(venue, sorted(entries))] >>)
            \o Sections(summary, live, k + 1)

generate_index(summary, live) == Sections(summary, live, 1)

\* lines 705-716: the loop is over, the index is written
LoopEnd ==
    /\ pc = "loop"
    /\ i > Len(races)
    /\ index_html' = generate_index(results_summary, jra_live)
    /\ pc' = "done"
    /\ UNCHANGED acqVars
    /\ UNCHANGED <<href_id, list_venue, ui, out_dir, html_files, existing, remote, ops>>
    /\ UNCHANGED <<no_scrape, races, jra_live, cushion_db, cache, cache0, i, race_data,
                   horses, responses, all_horses, results_summary, artifacts, renders,
                   rosterCalls, historyCalls, cacheWrites, outcome>>

Next ==
    \/ CheckCache
    \/ RosterSend
    \/ RosterRaises
    \/ RosterNoTable
    \/ RosterTable
    \/ HistorySend
    \/ HistoryRequest
    \/ HistoryRaises
    \/ ScrapeReturn
    \/ LinkCushionData
    \/ RenderArtifact
    \/ LoopEnd

Spec == Init /\ [][Next]_vars

(***************************************************************************)
(* Step 2: get_race_list, one link of the listing page.  The identifier is *)
(* the sequence of the digits matched by race_id=(\d+).                    *)
(***************************************************************************)
MaxIdLen == 12

DigitChars == {"0", "1", "2", "3", "4", "5", "6", "7", "8", "9"}

DigitValue ==
    ("0" :> 0) @@ ("1" :> 1) @@ ("2" :> 2) @@ ("3" :> 3) @@ ("4" :> 4) @@
    ("5" :> 5) @@ ("6" :> 6) @@ ("7" :> 7) @@ ("8" :> 8) @@ ("9" :> 9)

\* s[a:b] of a string no longer than b may be short or empty
Slice(s, a, b) == SubSeq(s, a + 1, Min(b, Len(s)))

\* the characters of the keys of VENUE_CODES
KeyChars ==
    ("01" :> <<"0", "1">>) @@ ("02" :> <<"0", "2">>) @@ ("03" :> <<"0", "3">>) @@
    ("04" :> <<"0", "4">>) @@ ("05" :> <<"0", "5">>) @@ ("06" :> <<"0", "6">>) @@
    ("07" :> <<"0", "7">>) @@ ("08" :> <<"0", "8">>) @@ ("09" :> <<"0", "9">>) @@
    ("10" :> <<"1", "0">>)

\* the string a sequence of characters spells: a key of VENUE_CODES or not
Spelled(cs) ==
    IF \E k \in DOMAIN KeyChars : KeyChars[k] = cs
    THEN CHOOSE k \in DOMAIN KeyChars : KeyChars[k] = cs
    ELSE "no key"

\* int(s) of a string of digits; int('') raises ValueError
RECURSIVE int(_)
int(s) == IF s = <<>> THEN 0 ELSE 10 * int(SubSeq(s, 1, Len(s) - 1)) + DigitValue[s[Len(s)]]

\* the identifiers of the links: year, venue code, meeting, day, race number,
\* and what is left of them when the link is cut short
FullId(a, b) == <<"2", "0", "2", "6", a, b, "0", "1", "0", "2", "1", "1", "0", "0">>

LinkIds == { SubSeq(FullId(a, b), 1, n) : a \in DigitChars, b \in DigitChars, n \in 1..MaxIdLen }

\* what lines 101-107 make of the link text: surface, distance, race name
LinkTexts ==
    { [surface |-> Shiba, distance |-> 1600, race_name |-> <<"S">>],
      [surface |-> Unknown, distance |-> 0, race_name |-> <<"G", "/", "1">>] }

InitRaceList ==
    /\ index_html = <<>>
    /\ ui = UiOnLoad
    /\ out_dir = {}
    /\ html_files = {}
    /\ existing = <<>>
    /\ remote = <<>>
    /\ ops = <<>>
    /\ InitAcq
    /\ href_id \in [digits : LinkIds, text : LinkTexts]
    /\ list_venue = Null
    /\ pc = "list"
    /\ races = <<>>
    /\ i = 1
    /\ no_scrape = FALSE
    /\ jra_live = <<>>
    /\ cushion_db = <<>>
    /\ cache = <<>>
    /\ cache0 = <<>>
    /\ race_data = <<>>
    /\ horses = <<>>
    /\ responses = <<>>
    /\ all_horses = <<>>
    /\ results_summary = <<>>
    /\ artifacts = <<>>
    /\ renders = <<>>
    /\ rosterCalls = <<>>
    /\ historyCalls = <<>>
    /\ cacheWrites = <<>>
    /\ outcome = <<>>

\* lines 91-117 for one link whose identifier was not seen before
GetRaceListLink ==
    /\ pc = "list"
    /\ href_id.digits \notin { races[j].race_id : j \in 1..Len(races) }
    /\ LET venue_code == Slice(href_id.digits, 4, 6)
           number == Slice(href_id.digits, 10, 12)
       IN /\ list_venue' = VenueOf(Spelled(venue_code))
          /\ IF number = <<>>
             THEN /\ pc' = "raised_in_list"
                  /\ UNCHANGED races
             ELSE /\ pc' = "listed"
                  /\ races' = Append(races,
                        [race_id |-> href_id.digits, venue |-> list_venue',
                         race_num |-> int(number), race_name |-> href_id.text.race_name,
                         surface |-> href_id.text.surface, distance |-> href_id.text.distance])
    /\ UNCHANGED acqVars
    /\ UNCHANGED <<index_html, href_id, ui, out_dir, html_files, existing, remote, ops>>
    /\ UNCHANGED <<no_scrape, jra_live, cushion_db, cache, cache0, i, race_data, horses,
                   responses, all_horses, results_summary, artifacts, renders,
                   rosterCalls, historyCalls, cacheWrites, outcome>>

NextRaceList == GetRaceListLink

SpecRaceList == InitRaceList /\ [][NextRaceList]_vars

\* C13: whatever digits the link holds, the venue decoded from its fifth and
\* sixth digit is the canonical name of that code for the ten codes 01..10
\* and the sentinel for anything else, a code cut short included; the
\* handling of a link raises only where the identifier has no digit left
\* for the race number, never in the decoding
VenueDecodingTotal ==
    pc \in {"listed", "raised_in_list"} =>
        LET d == href_id.digits
            known == [c \in {"01", "02", "03", "04", "05", "06", "07", "08", "09", "10"} |->
                        CASE c = "01" -> "Sapporo" [] c = "02" -> "Hakodate"
                          [] c = "03" -> "Fukushima" [] c = "04" -> "Niigata"
                          [] c = "05" -> "Tokyo" [] c = "06" -> "Nakayama"
                          [] c = "07" -> "Chukyo" [] c = "08" -> "Kyoto"
                          [] c = "09" -> "Hanshin" [] c = "10" -> "Kokura"]
        IN /\ \A c \in DOMAIN known :
                 (Len(d) >= 6 /\ <<d[5], d[6]>> = KeyChars[c]) => list_venue = known[c]
           /\ (Len(d) < 6 \/ \A c \in DOMAIN known : <<d[5], d[6]>> # KeyChars[c])
                 => list_venue = Unknown
           /\ pc = "listed" => races[1].venue = list_venue
           /\ pc = "raised_in_list" => Len(d) <= 10

\* a link with code 05 was listed under Tokyo
VenueDecodingWitness ==
    /\ pc = "listed"
    /\ Slice(href_id.digits, 4, 6) = <<"0", "5">>
    /\ races[1].venue = "Tokyo"
    /\ races[1].race_num = 11

(***************************************************************************)
(* generate_index on its own: results_summary in every order.              *)
(***************************************************************************)
MaxSummaries == 3

SummaryPool ==
    { <<"Tokyo", 11, <<"G", "/", "1">>, 2, 3>>,
      <<"Tokyo", 1, <<"3", " ", "s">>, 2, 0>>,
      <<"Tokyo", 1, <<"S">>, 1, 2>>,
      <<"Kyoto", 2, <<"S">>, 2, 4>>,
      <<"Kokura", 5, <<"G", "/", "1">>, 0, 0>>,
      <<Unknown, 5, <<"S">>, 2, 1>> }

SummaryLists == UNION { [1..n -> SummaryPool] : n \in 0..MaxSummaries }

InitIndex ==
    /\ InitOther
    /\ InitAcq
    /\ results_summary \in SummaryLists
    /\ jra_live \in LiveFeeds
    /\ pc = "loop"
    /\ i = 1
    /\ races = <<>>
    /\ no_scrape = FALSE
    /\ cushion_db = <<>>
    /\ cache = <<>>
    /\ cache0 = <<>>
    /\ race_data = <<>>
    /\ horses = <<>>
    /\ responses = <<>>
    /\ all_horses = <<>>
    /\ artifacts = <<>>
    /\ renders = <<>>
    /\ rosterCalls = <<>>
    /\ historyCalls = <<>>
    /\ cacheWrites = <<>>
    /\ outcome = <<>>

NextIndex == LoopEnd

SpecIndex == InitIndex /\ [][NextIndex]_vars

VenuePos(venue) == CHOOSE k \in 1..Len(VenueOrder) : VenueOrder[k] = venue

VenuesOf(summary) == { summary[k][1] : k \in 1..Len(summary) }

\* C11: the sections of the index follow the fixed venue order, a venue has
\* a section exactly when it is one of the ten and has a summary, no venue has
\* two, and a section lists all the summaries of its venue by ascending race
\* number, whatever the order of results_summary
IndexOrdered ==
    pc = "done" =>
        /\ \A a \in 1..Len(index_html) :
              /\ \E k \in 1..Len(VenueOrder) : VenueOrder[k] = index_html[a].venue
              /\ index_html[a].venue \in VenuesOf(results_summary)
              /\ Len(index_html[a].links) = Len(Grouped(results_summary, index_html[a].venue))
              /\ \A x, y \in 1..Len(index_html[a].links) :
                    x < y => index_html[a].links[x].rnum <= index_html[a].links[y].rnum
        /\ \A a, b \in 1..Len(index_html) :
              a < b => VenuePos(index_html[a].venue) < VenuePos(index_html[b].venue)
        /\ \A k \in 1..Len(VenueOrder) :
              VenueOrder[k] \in VenuesOf(results_summary) =>
                  \E a \in 1..Len(index_html) : index_html[a].venue = VenueOrder[k]

\* Kyoto summarised before Tokyo, Tokyo's race 11 before its race 1: the
\* index has Tokyo first, with race 1 ahead of race 11
IndexOrderedWitness ==
    /\ pc = "done"
    /\ Len(results_summary) = 3
    /\ results_summary[1][1] = "Kyoto"
    /\ results_summary[2][1] = "Tokyo" /\ results_summary[2][2] = 11
    /\ results_summary[3][1] = "Tokyo" /\ results_summary[3][2] = 1
    /\ Len(index_html) = 2
    /\ index_html[1].venue = "Tokyo"
    /\ index_html[1].links[1].rnum = 1
    /\ index_html[1].links[2].rnum = 11

(***************************************************************************)
(* The script of a generated document, lines 418-558: the state it keeps   *)
(* and the three click handlers of buildPanel.  A point is keyed by the    *)
(* pair of the indices the script joins with '-'.                          *)
(***************************************************************************)
MaxClientHorses == 2

\* the variables of main that a loaded document and the publisher never touch
loopVars ==
    <<no_scrape, races, jra_live, cushion_db, cache, cache0, i, race_data, horses,
      responses, all_horses, results_summary, renders, rosterCalls, historyCalls,
      cacheWrites, outcome>>

InitNoLoop ==
    /\ no_scrape = FALSE
    /\ races = <<>>
    /\ jra_live = <<>>
    /\ cushion_db = <<>>
    /\ cache = <<>>
    /\ cache0 = <<>>
    /\ i = 1
    /\ race_data = <<>>
    /\ horses = <<>>
    /\ responses = <<>>
    /\ all_horses = <<>>
    /\ results_summary = <<>>
    /\ renders = <<>>
    /\ rosterCalls = <<>>
    /\ historyCalls = <<>>
    /\ cacheWrites = <<>>
    /\ outcome = <<>>

\* line 496
RANKS == <<"S", "A", "B", "C", "D">>

\* the HORSES a document may embed: one, two or no run to show
EmbeddedHorses ==
    << [name |-> "Alpha",
        races |-> << JsRace(Run(D1, Tokyo, Shiba, 1600, 1, 98, 112), Shiba, 1600) >>],
       [name |-> "Bravo",
        races |-> << JsRace(Run(D1, Tokyo, Shiba, 2000, 4, 98, 112), Shiba, 1600),
                     JsRace(Run(D1, Kyoto, Da, 2000, 3, 90, 30), Shiba, 1600) >>],
       [name |-> "Charlie", races |-> <<>>],
       [name |-> "Delta",
        races |-> << JsRace(Run(D1, Tokyo, Da, 1600, Null, 98, 45), Shiba, 1600) >>] >>

\* lines 418-421: the constants of the documents loaded
Documents ==
    { [file |-> FileName(Tokyo, 11, <<"S">>), race_id |-> RaceId("05", 11),
       HORSES |-> SubSeq(EmbeddedHorses, 1, n), TX |-> tx, TY |-> 112, TDIST |-> 1600] :
        n \in 1..Min(MaxClientHorses, Len(EmbeddedHorses)), tx \in {98, 95} }

\* the script has run to its last line: the document is loaded
InitClient ==
    /\ InitNoLoop
    /\ InitAcq
    /\ InitOther
    /\ artifacts \in { <<d>> : d \in Documents }
    /\ pc = "loaded"

HORSES == artifacts[1].HORSES

\* Set.has / Set.delete / Set.add of lines 510-511 and 530
Toggle(set, key) == IF key \in set THEN set \ {key} ELSE set \cup {key}

RateAlways(ratings, name, rank) ==
    [n \in DOMAIN ratings \cup {name} |-> IF n = name THEN rank ELSE ratings[n]]

\* lines 520-521
Rate(ratings, name, rank) ==
    IF name \in DOMAIN ratings /\ ratings[name] = rank
    THEN [n \in DOMAIN ratings \ {name} |-> ratings[n]]
    ELSE [n \in DOMAIN ratings \cup {name} |-> IF n = name THEN rank ELSE ratings[n]]

\* lines 508-513: the click handler of the button of horse hi
OnHorseButton(u, hi) ==
    [u EXCEPT !.selectedHorses = Toggle(@, HORSES[hi].name)]

\* lines 514-524: the click handler of the rating button (hi, rank)
OnRatingButton(u, hi, rank) ==
    [u EXCEPT !.ratings = Rate(@, HORSES[hi].name, rank)]

\* lines 525-533: the click handler of run item ri of horse hi
OnRaceItem(u, hi, ri) ==
    [u EXCEPT !.highlightedPoints = Toggle(@, <<hi, ri>>)]

HorseButtonClick ==
    /\ pc \in {"loaded", "idle"}
    /\ \E hi \in 1..Len(HORSES) : ui' = OnHorseButton(ui, hi)
    /\ pc' = "idle"
    /\ UNCHANGED <<artifacts, loopVars, acqVars>>
    /\ UNCHANGED <<index_html, href_id, list_venue, out_dir, html_files, existing, remote, ops>>

RatingButtonClick ==
    /\ pc \in {"loaded", "idle"}
    /\ \E hi \in 1..Len(HORSES), r \in 1..Len(RANKS) : ui' = OnRatingButton(ui, hi, RANKS[r])
    /\ pc' = "idle"
    /\ UNCHANGED <<artifacts, loopVars, acqVars>>
    /\ UNCHANGED <<index_html, href_id, list_venue, out_dir, html_files, existing, remote, ops>>

RaceItemClick ==
    /\ pc \in {"loaded", "idle"}
    /\ \E hi \in 1..Len(HORSES) :
          \E ri \in 1..Len(HORSES[hi].races) : ui' = OnRaceItem(ui, hi, ri)
    /\ pc' = "idle"
    /\ UNCHANGED <<artifacts, loopVars, acqVars>>
    /\ UNCHANGED <<index_html, href_id, list_venue, out_dir, html_files, existing, remote, ops>>

NextClient ==
    \/ HorseButtonClick
    \/ RatingButtonClick
    \/ RaceItemClick

SpecClient == InitClient /\ [][NextClient]_vars

\* what holds of the script's state in a loaded document, before and after
\* any click
ClientStateInv ==
    /\ pc = "loaded" =>
          ui.selectedHorses = {} /\ ui.highlightedPoints = {} /\ DOMAIN ui.ratings = {}
    /\ artifacts[1] \in Documents
    /\ \A name \in DOMAIN ui.ratings :
          /\ \E hi \in 1..Len(HORSES) : HORSES[hi].name = name
          /\ ui.ratings[name] \in {"S", "A", "B", "C", "D"}
    /\ \A hi \in 1..Len(HORSES) :
          /\ OnHorseButton(OnHorseButton(ui, hi), hi) = ui
          /\ OnHorseButton(ui, hi).selectedHorses # ui.selectedHorses
          /\ \A ri \in 1..Len(HORSES[hi].races) :
                /\ OnRaceItem(OnRaceItem(ui, hi, ri), hi, ri) = ui
                /\ OnRaceItem(ui, hi, ri).highlightedPoints # ui.highlightedPoints
          /\ \A rank \in {"S", "A", "B", "C", "D"} :
                LET name == HORSES[hi].name
                    before == ui.ratings
                    after == OnRatingButton(ui, hi, rank).ratings
                IN /\ IF name \in DOMAIN before /\ before[name] = rank
                      THEN name \notin DOMAIN after
                      ELSE name \in DOMAIN after /\ after[name] = rank
                   /\ \A other \in (DOMAIN before \cup DOMAIN after) \ {name} :
                         /\ other \in DOMAIN before /\ other \in DOMAIN after
                         /\ after[other] = before[other]

\* C15: a document just loaded has nothing selected, highlighted or rated;
\* whatever was clicked since, every rated horse is a horse of the document
\* with one rank of S, A, B, C, D; a click on a rating button leaves that
\* horse with the rank clicked, or with none if it had that rank, and the
\* other horses as they were; a second click on a horse button or a run item
\* undoes the first; and the document's HORSES, TX, TY and TDIST are what
\* was loaded
ClientStateLocal == []ClientStateInv /\ [][artifacts' = artifacts]_vars

\* Alpha was rated, Bravo is selected and rated B, and Bravo's second run
\* is highlighted
ClientStateWitness ==
    /\ pc = "idle"
    /\ Len(HORSES) = 2
    /\ ui.selectedHorses = {"Bravo"}
    /\ ui.highlightedPoints = {<<2, 2>>}
    /\ DOMAIN ui.ratings = {"Alpha", "Bravo"}
    /\ ui.ratings["Bravo"] = "B"

(***************************************************************************)
(* deploy_to_github.  A file name is its stem and its extension; a sha is  *)
(* a number: 1 for what the repository held before, 2 for an upload.       *)
(***************************************************************************)
MaxNames == 4

FileNames ==
    << [stem |-> "index", ext |-> "html"],
       [stem |-> "scatter_a", ext |-> "html"],
       [stem |-> "scatter_b", ext |-> "html"],
       [stem |-> "README", ext |-> "md"],
       [stem |-> "scatter_c", ext |-> "html"] >>

NamePool == { FileNames[k] : k \in 1..Min(MaxNames, Len(FileNames)) }

\* fname.endswith('.html')
IsHtml(fname) == fname.ext = "html"

\* the place of a name among the names in str order
NameRank(fname) ==
    CASE fname.stem = "README" -> 1
      [] fname.stem = "index" -> 2
      [] fname.stem = "scatter_a" -> 3
      [] fname.stem = "scatter_b" -> 4
      [] fname.stem = "scatter_c" -> 5

\* sorted(html_files), and the order of the repository listing
RECURSIVE SortedNames(_)
SortedNames(S) ==
    IF S = {} THEN <<>>
    ELSE LET first == CHOOSE x \in S : \A y \in S : NameRank(x) <= NameRank(y)
         IN <<first>> \o SortedNames(S \ {first})

\* what the repository holds: name -> sha
Repositories == UNION { [S -> {1}] : S \in SUBSET NamePool }

InitDeploy ==
    /\ InitNoLoop
    /\ InitAcq
    /\ index_html = <<>>
    /\ href_id = <<>>
    /\ list_venue = Null
    /\ ui = UiOnLoad
    /\ artifacts = <<>>
    /\ out_dir \in SUBSET NamePool
    /\ remote \in Repositories
    /\ html_files = {}
    /\ existing = <<>>
    /\ ops = <<>>
    /\ pc = "deploy"

\* lines 792-796: no deploy_config.json
DeployNoConfig ==
    /\ pc = "deploy"
    /\ pc' = "no_config"
    /\ UNCHANGED <<artifacts, loopVars, acqVars>>
    /\ UNCHANGED otherVars

\* existing as lines 810-813 build it from the listing: the items in order
Listing(repo) ==
    LET names == SortedNames(DOMAIN repo)
    IN [k \in 1..Len(names) |-> [name |-> names[k], sha |-> repo[names[k]]]]

\* fname in existing
Listed(fname, ex) == \E k \in 1..Len(ex) : ex[k].name = fname

ShaOf(fname, ex) == ex[CHOOSE k \in 1..Len(ex) : ex[k].name = fname].sha

\* lines 808-816: the listing request and what is made of its answer
DeployList ==
    /\ pc = "deploy"
    /\ \E answer \in {"200", "other", "raise"} :
          /\ ops' = Append(ops, [op |-> "GET", name |-> <<>>, sha |-> Absent,
                                  ok |-> (answer = "200")])
          /\ IF answer = "raise"
             THEN /\ pc' = "raised_in_deploy"
                  /\ UNCHANGED <<existing, html_files>>
             ELSE /\ existing' = IF answer = "200" THEN Listing(remote) ELSE <<>>
                  /\ html_files' = { f \in out_dir : IsHtml(f) }
                  /\ pc' = "upload"
    /\ UNCHANGED <<artifacts, loopVars, acqVars>>
    /\ UNCHANGED <<index_html, href_id, list_venue, ui, out_dir, remote>>

Uploads == SelectSeq(ops, LAMBDA o : o.op = "PUT")

Deletes == SelectSeq(ops, LAMBDA o : o.op = "DELETE")

PutShaNever(fname, ex) == Absent

\* lines 831-832: payload['sha'], if any
PutSha(fname, ex) == IF Listed(fname, ex) THEN ShaOf(fname, ex) ELSE Absent

\* the content store takes an upload that creates a file, or that replaces
\* one and names its sha
PutAccepted(repo, fname, sha) ==
    IF fname \in DOMAIN repo THEN sha = repo[fname] ELSE sha = Absent

\* the content store deletes a file it holds whose sha is named
DeleteAccepted(repo, fname, sha) == fname \in DOMAIN repo /\ sha = repo[fname]

\* lines 820-843, one turn of the loop: the next document in sorted order
\* is uploaded, the answer is printed, the process sleeps
DeployUpload ==
    /\ pc = "upload"
    /\ Len(Uploads) < Cardinality(html_files)
    /\ LET fname == SortedNames(html_files)[Len(Uploads) + 1]
           sha == PutSha(fname, existing)
       IN \E answer \in {"200", "other", "raise"} :
            /\ answer = "200" => PutAccepted(remote, fname, sha)
            /\ ops' = Append(ops, [op |-> "PUT", name |-> fname, sha |-> sha,
                                    ok |-> (answer = "200")])
            /\ remote' = IF answer = "200"
                         THEN [f \in DOMAIN remote \cup {fname} |->
                                 IF f = fname THEN 2 ELSE remote[f]]
                         ELSE remote
            /\ pc' = IF answer = "raise" THEN "raised_in_deploy" ELSE "upload"
    /\ UNCHANGED <<artifacts, loopVars, acqVars>>
    /\ UNCHANGED <<index_html, href_id, list_venue, ui, out_dir, html_files, existing>>

\* line 846: the items of existing a delete is requested for, in order
Stale == SelectSeq(existing, LAMBDA item : IsHtml(item.name) /\ item.name \notin html_files)

\* lines 845-853, the next request of the loop
DeployDelete ==
    /\ pc = "upload"
    /\ Len(Uploads) = Cardinality(html_files)
    /\ Len(Deletes) < Len(Stale)
    /\ LET item == Stale[Len(Deletes) + 1]
       IN \E answer \in {"200", "other", "raise"} :
            /\ answer = "200" => DeleteAccepted(remote, item.name, item.sha)
            /\ ops' = Append(ops, [op |-> "DELETE", name |-> item.name, sha |-> item.sha,
                                    ok |-> (answer = "200")])
            /\ remote' = IF answer = "200"
                         THEN [f \in DOMAIN remote \ {item.name} |-> remote[f]]
                         ELSE remote
            /\ pc' = IF answer = "raise" THEN "raised_in_deploy" ELSE "upload"
    /\ UNCHANGED <<artifacts, loopVars, acqVars>>
    /\ UNCHANGED <<index_html, href_id, list_venue, ui, out_dir, html_files, existing>>

\* lines 855-857: both loops are over
DeployReturn ==
    /\ pc = "upload"
    /\ Len(Uploads) = Cardinality(html_files)
    /\ Len(Deletes) = Len(Stale)
    /\ pc' = "deployed"
    /\ UNCHANGED <<artifacts, loopVars, acqVars>>
    /\ UNCHANGED otherVars

NextDeploy ==
    \/ DeployNoConfig
    \/ DeployList
    \/ DeployUpload
    \/ DeployDelete
    \/ DeployReturn

SpecDeploy == InitDeploy /\ [][NextDeploy]_vars

Names(requests) == { requests[k].name : k \in 1..Len(requests) }

\* C19: the requests of a deploy are the listing, then uploads, then
\* deletes; the uploads are for the local documents in sorted order, one
\* each, with the sha of the listing exactly for a document the listing
\* held; the deletes are for listed documents that are not local, one
\* each; a deploy that returned has uploaded every local document and
\* asked to delete every listed document that is not local; and if every
\* request of it succeeded the repository holds exactly the local documents
PublisherSync ==
    /\ pc = "no_config" => ops = <<>>
    /\ \A k \in 1..Len(ops) :
          /\ ops[k].op = "GET" <=> k = 1
          /\ \A m \in 1..Len(ops) : (ops[k].op = "DELETE" /\ ops[m].op = "PUT") => m < k
    /\ Len(Uploads) <= Cardinality({ f \in out_dir : IsHtml(f) })
    /\ Uploads # <<>> =>
          \A k \in 1..Len(Uploads) :
              /\ Uploads[k].name = SortedNames({ f \in out_dir : IsHtml(f) })[k]
              /\ Uploads[k].sha # Absent <=> Listed(Uploads[k].name, existing)
              /\ Uploads[k].sha # Absent => Uploads[k].sha = ShaOf(Uploads[k].name, existing)
    /\ \A k \in 1..Len(Deletes) :
          /\ Listed(Deletes[k].name, existing)
          /\ IsHtml(Deletes[k].name)
          /\ Deletes[k].name \notin out_dir
          /\ \A m \in 1..Len(Deletes) : Deletes[m].name = Deletes[k].name => m = k
    /\ Deletes # <<>> => Names(Uploads) = { f \in out_dir : IsHtml(f) }
    /\ pc = "deployed" =>
          /\ Names(Uploads) = { f \in out_dir : IsHtml(f) }
          /\ Names(Deletes) =
                { f \in NamePool : Listed(f, existing) /\ IsHtml(f) /\ f \notin out_dir }
          /\ (\A k \in 1..Len(ops) : ops[k].ok) =>
                { f \in DOMAIN remote : IsHtml(f) } = { f \in out_dir : IsHtml(f) }

\* a deploy that returned with every request a success: an upload that
\* replaced a listed document, one that created a document, and a delete
PublisherSyncWitness ==
    /\ pc = "deployed"
    /\ \A k \in 1..Len(ops) : ops[k].ok
    /\ \E k \in 1..Len(Uploads) : Uploads[k].sha = 1
    /\ \E k \in 1..Len(Uploads) : Uploads[k].sha = Absent
    /\ Deletes # <<>>
    /\ \E f \in DOMAIN remote : ~IsHtml(f)

(***************************************************************************)
(* The loop of main, settled under Spec.                                   *)
(***************************************************************************)
Written(id) == { a \in 1..Len(artifacts) : artifacts[a].race_id = id }

Summarised(race) ==
    { a \in 1..Len(results_summary) :
        /\ results_summary[a][1] = race.venue
        /\ results_summary[a][2] = race.race_num
        /\ results_summary[a][3] = race.race_name }

\* C6: a race that had a cache entry when the run began is processed from
\* that entry, with no request to the Roster or the History Adapter and no
\* write of its entry; an entry is written only for a race that had none and
\* whose acquisition succeeded, and at most once
TrustedCache ==
    \A j \in 1..Len(races) :
        LET id == races[j].race_id
        IN /\ id \in DOMAIN cache0 =>
                /\ rosterCalls[id] = 0
                /\ historyCalls[id] = 0
                /\ cacheWrites[id] = 0
                /\ id \in DOMAIN cache /\ cache[id] = cache0[id]
                /\ outcome[j] \in {"pending", "cached"}
                /\ (i = j /\ pc = "link") => race_data = cache0[id]
           /\ cacheWrites[id] <= 1
           /\ cacheWrites[id] = 1 =>
                /\ id \notin DOMAIN cache0
                /\ outcome[j] = "scraped"
                /\ rosterCalls[id] = 1
                /\ id \in DOMAIN cache

\* a finished run without --no-scrape that took its first race from the
\* cache and scraped and persisted its second
TrustedCacheWitness ==
    /\ pc = "done"
    /\ ~no_scrape
    /\ Len(races) >= 2
    /\ races[1].race_id \in DOMAIN cache0
    /\ Written(races[1].race_id) # {}
    /\ cacheWrites[races[2].race_id] = 1

\* C7: under --no-scrape no request is made to the Roster or the History
\* Adapter and no cache entry is written
CacheOnlyNeverAcquires ==
    no_scrape =>
        /\ pc \notin {"roster", "history"}
        /\ \A id \in Ids(races) :
              rosterCalls[id] = 0 /\ historyCalls[id] = 0 /\ cacheWrites[id] = 0

\* C8: a race whose roster page held no table made one Roster request and no
\* History request, has no cache entry, no document and no summary, and the
\* loop has gone on past it; a run that ends normally has dealt with every
\* race and has written a document for each race it had data for
RosterFailureSkipsRace ==
    /\ \A j \in 1..Len(races) :
          LET id == races[j].race_id
          IN outcome[j] = "no_data" =>
                /\ rosterCalls[id] = 1
                /\ historyCalls[id] = 0
                /\ cacheWrites[id] = 0
                /\ id \notin DOMAIN cache
                /\ Written(id) = {}
                /\ Summarised(races[j]) = {}
                /\ i > j
    /\ pc = "done" =>
          \A j \in 1..Len(races) :
              /\ outcome[j] # "pending"
              /\ outcome[j] \in {"cached", "scraped"} =>
                    Cardinality(Written(races[j].race_id)) = 1

\* a finished run whose first race had no roster table and whose second was
\* scraped and rendered
RosterFailureWitness ==
    /\ pc = "done"
    /\ Len(races) >= 2
    /\ outcome[1] = "no_data"
    /\ outcome[2] = "scraped"
    /\ Written(races[2].race_id) # {}

\* C14: at most one request to the Roster or the History Adapter is in
\* progress; it is for the race the loop is at and, if a history request,
\* for the first entrant of the roster not yet asked for; no race later in
\* the list has been asked for, the entrants answered so far are the first of
\* the roster in its order, and a History request that follows another is
\* sent no sooner than the delay after that one returned
SequentialThrottled ==
    /\ Cardinality(inflight) <= 1
    /\ inflight # {} <=> pc \in {"roster_wait", "history_wait"}
    /\ pc = "roster_wait" => inflight = {RosterGet(rid)}
    /\ pc = "history_wait" =>
          /\ Len(responses) < Len(horses)
          /\ inflight = {HistoryGet(horses[Len(responses) + 1].horse_id)}
          /\ historyCalls[rid] = Len(responses) + 1
          /\ Len(responses) >= 1 => reqGap # Null
    /\ \A j \in 1..Len(races) :
          j > i => rosterCalls[races[j].race_id] = 0 /\ historyCalls[races[j].race_id] = 0
    /\ pc \in {"history", "history_wait"} =>
          /\ Len(all_horses) = Len(responses)
          /\ \A k \in 1..Len(all_horses) : all_horses[k].name = horses[k].name
    /\ reqGap # Null => reqGap >= HistoryDelay

\* the second race of the list: the request for its second entrant is in
\* progress, sent after the sleep that followed the first
SequentialThrottledWitness ==
    /\ pc = "history_wait"
    /\ i = 2
    /\ outcome[1] = "scraped"
    /\ Len(responses) = 1
    /\ Cardinality(inflight) = 1
    /\ reqGap = HistoryDelay

\* the links of the index document that point to a file
LinksTo(file) ==
    { <<a, k>> \in UNION { { <<b, m>> : m \in 1..Len(index_html[b].links) } :
                            b \in 1..Len(index_html) } :
        index_html[a].links[k].href = file }

\* C17: once the index is written, it holds exactly one link to the file of
\* every document the run wrote, a race of the sentinel venue included, and
\* every link of it points to the file of a document the run wrote
IndexLinksArtifacts ==
    pc = "done" =>
        /\ \A a \in 1..Len(artifacts) : Cardinality(LinksTo(artifacts[a].file)) = 1
        /\ \A b \in 1..Len(index_html) :
              \A m \in 1..Len(index_html[b].links) :
                  \E a \in 1..Len(artifacts) : artifacts[a].file = index_html[b].links[m].href

\* the race of the listing a document was written for
RaceOf(doc) == CHOOSE race \in { races[j] : j \in 1..Len(races) } : race.race_id = doc.race_id

\* C18: the target point of every document written is a pair of numbers:
\* the venue's measured cushion, or 9.5 where the feed has none, and the
\* venue's measured moisture of the race's surface, or 5.0 for a dirt race
\* and 12.0 for any other where the feed has none, a null one included
TargetNumeric ==
    \A a \in 1..Len(artifacts) :
        LET doc == artifacts[a]
            live == LiveOf(RaceOf(doc).venue)
            measured == IF RaceOf(doc).surface = Da THEN live.dirt_moisture
                        ELSE live.turf_moisture
            fallback == IF RaceOf(doc).surface = Da THEN 50 ELSE 120
        IN /\ doc.TX \in Nat
           /\ doc.TY \in Nat
           /\ doc.TX = IF live.cushion \in {Absent, Null} THEN 95 ELSE live.cushion
           /\ doc.TY = IF measured \in {Absent, Null} THEN fallback ELSE measured

\* C9: a history request that finds no result table or that fails leaves the
\* run going, with an empty run sequence for that entrant, every entrant so
\* far present in roster order
HistoryFailureDegrades ==
    /\ \A k \in 1..Len(responses) :
          responses[k].kind \in {"no_table", "raise"} =>
              /\ k <= Len(all_horses)
              /\ all_horses[k].name = horses[k].name
              /\ all_horses[k].races = <<>>
    /\ ~(pc = "raised_in_scrape" /\ \E k \in 1..Len(responses) : responses[k].kind = "raise")

====
